---- MODULE Spec2Model ----
(***************************************************************************)
(* Session store (AuthContext.js: authReducer, AuthProvider) and the API   *)
(* client (services/api.js: interceptors, authAPI, patientsAPI,            *)
(* taskLogsAPI) of the patient task logger frontend, as one state machine. *)
(*                                                                         *)
(* One browser tab.  JavaScript runs to completion: the promise reactions  *)
(* that follow a network response (response interceptor, then the awaiting *)
(* login/register/caller continuation) run in the same task, so no other   *)
(* event can come between them.  They are two actions here, so that their  *)
(* order can be observed, and every other action waits while a call is     *)
(* between the two ("settling").  Calls of one kind awaiting a response    *)
(* are interchangeable, so they are counted.                               *)
(***************************************************************************)
EXTENDS Integers, Sequences, FiniteSets

VARIABLES
    state,          \* useReducer state of AuthProvider
    localStorage,   \* the two keys of window.localStorage the code touches
    calls,          \* number of API calls awaiting a response, by kind
    settling,       \* the call whose response is being delivered, if any
    nav,            \* value assigned to window.location.href, not yet loaded
    restoreRuns,    \* times the mount effect of AuthProvider ran in this process
    starts,         \* number of page loads (process starts) so far
    writer,         \* who wrote the credentials now in storage, if this run did
    last            \* the operation completed last and its outcome

vars ==
    <<state, localStorage, calls, settling, nav, restoreRuns, starts, writer,
      last>>

----------------------------------------------------------------------------
(* Bounds *)

MaxCalls == 2       \* API calls that can be in flight at once
MaxStarts == 2      \* process starts (page loads) in one behaviour
MaxRestoreRuns == 2 \* cap of the per-process count of restore runs

----------------------------------------------------------------------------
(* JavaScript values.  A string is a sequence of tokens. *)

Undefined == [t |-> "undefined", s |-> <<>>, id |-> "", role |-> ""]
Null == [t |-> "null", s |-> <<>>, id |-> "", role |-> ""]
Str(x) == [t |-> "string", s |-> x, id |-> "", role |-> ""]
Obj(i, r) == [t |-> "object", s |-> <<>>, id |-> i, role |-> r]

Truthy(v) == v.t = "object" \/ (v.t = "string" /\ v.s # <<>>)
Present(v) == v.t \notin {"undefined", "null"}

\* a || b
OrElse(a, b) == IF Truthy(a) THEN a ELSE b

\* JSON.stringify(v): undefined for undefined, the JSON text otherwise
JSONstringify(v) ==
    CASE v.t = "undefined" -> Undefined
      [] v.t = "null" -> Str(<<"null">>)
      [] v.t = "string" -> Str(<<"dq">> \o v.s \o <<"dq">>)
      [] OTHER -> Str(<<"{", "id", v.id, "role", v.role, "}">>)

\* String(v), the coercion localStorage.setItem applies to its value
StringOf(v) ==
    CASE v.t = "undefined" -> <<"undefined">>
      [] v.t = "null" -> <<"null">>
      [] v.t = "string" -> v.s
      [] OTHER -> <<"[object Object]">>

\* JSON.parse(x) of a string x: does it throw, and what it yields
IsObjectText(x) ==
    Len(x) = 6 /\ x[1] = "{" /\ x[2] = "id" /\ x[4] = "role" /\ x[6] = "}"
IsStringText(x) == Len(x) >= 2 /\ x[1] = "dq" /\ x[Len(x)] = "dq"
JSONparseThrows(x) == ~(x = <<"null">> \/ IsObjectText(x) \/ IsStringText(x))
JSONparse(x) ==
    CASE x = <<"null">> -> Null
      [] IsObjectText(x) -> Obj(x[3], x[5])
      [] OTHER -> Str(SubSeq(x, 2, Len(x) - 1))

----------------------------------------------------------------------------
(* localStorage *)

getItem(st, k) == st[k]
setItem(st, k, v) == [st EXCEPT ![k] = Str(StringOf(v))]
removeItem(st, k) == [st EXCEPT ![k] = Null]

StorageEmpty(st) == st.authToken = Null /\ st.user = Null

----------------------------------------------------------------------------
(* Values the environment supplies *)

Admin == Obj("u1", "admin")
Clinician == Obj("u2", "clinician")
TokenA == Str(<<"abc">>)
TokenB == Str(<<"xyz">>)

ValidUsers == {Admin, Clinician}
ValidTokens == {TokenA, TokenB}

\* {user, token} bodies of a 2xx answer of /auth/login and /auth/register:
\* the documented shape, and bodies with a field null or missing
OkPayloads ==
    { [user |-> Admin, token |-> TokenA],
      [user |-> Clinician, token |-> TokenB],
      [user |-> Null, token |-> TokenA],
      [user |-> Undefined, token |-> TokenA],
      [user |-> Admin, token |-> Undefined] }

ServerMessage == Str(<<"Invalid credentials">>)
Unauthorized == 401
\* the HTTP error statuses the server answers with: 401 and one other
ErrorStatuses == {Unauthorized, 500}

NoResp == [kind |-> "none", status |-> 0, user |-> Undefined,
           token |-> Undefined, msg |-> Undefined]
OkResp(p) == [kind |-> "ok", status |-> 200, user |-> p.user,
              token |-> p.token, msg |-> Undefined]
HttpError(st, m) == [kind |-> "http", status |-> st, user |-> Undefined,
                     token |-> Undefined, msg |-> m]
\* no response received: connection failure, or the 10 s timeout
NetworkError == [kind |-> "network", status |-> 0, user |-> Undefined,
                 token |-> Undefined, msg |-> Undefined]

AuthResponses ==
    {OkResp(p) : p \in OkPayloads}
    \cup {HttpError(st, m) : st \in ErrorStatuses,
                             m \in {Undefined, ServerMessage}}
    \cup {NetworkError}

\* answers to patient and task-log calls: the body is not session data
DataResponses ==
    {OkResp([user |-> Undefined, token |-> Undefined])}
    \cup {HttpError(st, m) : st \in ErrorStatuses,
                             m \in {Undefined, ServerMessage}}
    \cup {NetworkError}

\* what the two keys can hold when the application starts
StoredTokens == {Null, TokenA}
StoredUsers == {Null, JSONstringify(Admin), Str(<<"null">>),
                Str(<<"undefined">>), Str(<<"{bad">>)}

----------------------------------------------------------------------------
(* authReducer *)

initialState ==
    [user |-> Null, token |-> Null, isAuthenticated |-> FALSE,
     isLoading |-> TRUE, error |-> Null]

Action(type, user, token, error) ==
    [type |-> type, user |-> user, token |-> token, error |-> error]

authReducer(s, a) ==
    CASE a.type = "LOGIN_START" ->
            [s EXCEPT !.isLoading = TRUE, !.error = Null]
      [] a.type = "LOGIN_SUCCESS" ->
            [s EXCEPT !.user = a.user, !.token = a.token,
                      !.isAuthenticated = TRUE, !.isLoading = FALSE,
                      !.error = Null]
      [] a.type = "LOGIN_FAILURE" ->
            [s EXCEPT !.user = Null, !.token = Null,
                      !.isAuthenticated = FALSE, !.isLoading = FALSE,
                      !.error = a.error]
      [] a.type = "LOGOUT" ->
            [s EXCEPT !.user = Null, !.token = Null,
                      !.isAuthenticated = FALSE, !.isLoading = FALSE,
                      !.error = Null]
      [] a.type = "LOAD_USER_FROM_STORAGE" ->
            [s EXCEPT !.user = a.user, !.token = a.token,
                      !.isAuthenticated = Truthy(a.token),
                      !.isLoading = FALSE]
      [] a.type = "CLEAR_ERROR" ->
            [s EXCEPT !.error = Null]
      [] OTHER -> s

----------------------------------------------------------------------------
(* Session states of the specification *)

Unknown(s) ==
    s.isLoading /\ ~Present(s.user) /\ ~Present(s.token) /\ ~s.isAuthenticated
Authenticated(s) ==
    s.isAuthenticated /\ Present(s.user) /\ Present(s.token)
Anonymous(s) ==
    ~s.isAuthenticated /\ ~Present(s.user) /\ ~Present(s.token)
    /\ ~s.isLoading

----------------------------------------------------------------------------
(* Calls *)

Kinds == {"login", "register", "patients", "tasklogs"}
NoCall == [kind |-> "idle", resp |-> NoResp]

InFlight == calls.login + calls.register + calls.patients + calls.tasklogs

\* no call is between its response interceptor and its continuation
Quiet == settling = NoCall

\* bug: the interceptor reads the key "token", which nothing writes
requestInterceptorReadsToken(st) == Undefined

\* request interceptor: the Authorization header of the outgoing request
requestInterceptor(st) ==
    IF Truthy(getItem(st, "authToken"))
    THEN Str(<<"Bearer ">> \o getItem(st, "authToken").s)
    ELSE Undefined

\* bug: every HTTP error status takes the branch that removes the keys
responseInterceptorStorageAnyStatus(st, r) ==
    IF r.kind = "http"
    THEN removeItem(removeItem(st, "authToken"), "user")
    ELSE st

\* bug: the 401 branch removes the token and leaves the user
responseInterceptorStorageTokenOnly(st, r) ==
    IF r.kind = "http" /\ r.status = Unauthorized
    THEN removeItem(st, "authToken")
    ELSE st

\* response interceptor, error handler: the storage it leaves
responseInterceptorStorage(st, r) ==
    IF r.kind = "http" /\ r.status = Unauthorized
    THEN removeItem(removeItem(st, "authToken"), "user")
    ELSE st

\* bug: the 401 branch does not navigate
responseInterceptorNoNav(n, r) == n

\* response interceptor, error handler: the assignment to window.location.href
responseInterceptorNav(n, r) ==
    IF r.kind = "http" /\ r.status = Unauthorized THEN "/login" ELSE n

NoStorage == [authToken |-> Null, user |-> Null]

\* op: the operation; outcome: how it ended for its caller; resp: the answer
\* of the server; value: what the caller got, returned or thrown; auth: the
\* Authorization header of the request sent; read: the storage restore read
Done(op, outcome, resp, value, auth, read) ==
    [op |-> op, outcome |-> outcome, resp |-> resp, value |-> value,
     auth |-> auth, read |-> read]

\* the writer of the stored credentials, once a key was removed: nobody
writerAfter(w, st) ==
    IF st.authToken = Null \/ st.user = Null THEN "none" ELSE w

----------------------------------------------------------------------------
(* Init *)

Init ==
    /\ state = initialState
    /\ localStorage \in [authToken : StoredTokens, user : StoredUsers]
    /\ calls = [k \in Kinds |-> 0]
    /\ settling = NoCall
    /\ nav = "none"
    /\ restoreRuns = 0
    /\ starts = 1
    /\ writer = "none"
    /\ last = Done("init", "none", NoResp, NoResp, Undefined, NoStorage)

----------------------------------------------------------------------------
(* AuthProvider: the effect that loads the user from localStorage *)

\* useEffect(..., []): due after the first commit of a mounted provider only
effectDue(n) == n = 0

restoreParses(st) ==
    /\ Truthy(getItem(st, "authToken")) /\ Truthy(getItem(st, "user"))
    /\ ~JSONparseThrows(getItem(st, "user").s)

\* bug: the catch branch leaves the stored data in place
restoreStorageKeeps(st) == st

restoreStorage(st) ==
    IF Truthy(getItem(st, "authToken")) /\ Truthy(getItem(st, "user"))
    THEN IF JSONparseThrows(getItem(st, "user").s)
         THEN removeItem(removeItem(st, "authToken"), "user")
         ELSE st
    ELSE st

\* bug: the stored text is dispatched as the user, unparsed
restoreActionUnparsed(st) ==
    IF restoreParses(st)
    THEN Action("LOAD_USER_FROM_STORAGE", getItem(st, "user"),
                getItem(st, "authToken"), Null)
    ELSE Action("LOAD_USER_FROM_STORAGE", Null, Null, Null)

restoreAction(st) ==
    IF restoreParses(st)
    THEN Action("LOAD_USER_FROM_STORAGE", JSONparse(getItem(st, "user").s),
                getItem(st, "authToken"), Null)
    ELSE Action("LOAD_USER_FROM_STORAGE", Null, Null, Null)

restore ==
    /\ Quiet
    /\ effectDue(restoreRuns)
    /\ restoreRuns < MaxRestoreRuns
    /\ localStorage' = restoreStorage(localStorage)
    /\ state' = authReducer(state, restoreAction(localStorage))
    /\ restoreRuns' = restoreRuns + 1
    /\ writer' = writerAfter(writer, localStorage')
    /\ last' = Done("restore", "returned", NoResp, NoResp, Undefined,
                    localStorage)
    /\ UNCHANGED <<calls, settling, nav, starts>>

----------------------------------------------------------------------------
(* Starting a call: login, register, and the patient / task-log calls *)

\* bug: login does nothing while an error is shown
loginRefusedAfterError ==
    /\ Quiet
    /\ state.error = Null
    /\ InFlight < MaxCalls
    /\ state' = authReducer(state, Action("LOGIN_START", Null, Null, Null))
    /\ calls' = [calls EXCEPT !.login = @ + 1]
    /\ last' = Done("login", "pending", NoResp, NoResp,
                    requestInterceptor(localStorage), NoStorage)
    /\ UNCHANGED <<localStorage, settling, nav, restoreRuns, starts, writer>>

login ==
    /\ Quiet
    /\ InFlight < MaxCalls
    /\ state' = authReducer(state, Action("LOGIN_START", Null, Null, Null))
    /\ calls' = [calls EXCEPT !.login = @ + 1]
    /\ last' = Done("login", "pending", NoResp, NoResp,
                    requestInterceptor(localStorage), NoStorage)
    /\ UNCHANGED <<localStorage, settling, nav, restoreRuns, starts, writer>>

\* bug: starting a register drops the session of the store
registerStartDropsSession ==
    /\ Quiet
    /\ InFlight < MaxCalls
    /\ state' = [authReducer(state, Action("LOGOUT", Null, Null, Null))
                    EXCEPT !.isLoading = TRUE]
    /\ calls' = [calls EXCEPT !.register = @ + 1]
    /\ last' = Done("register", "pending", NoResp, NoResp,
                    requestInterceptor(localStorage), NoStorage)
    /\ UNCHANGED <<localStorage, settling, nav, restoreRuns, starts, writer>>

register ==
    /\ Quiet
    /\ InFlight < MaxCalls
    /\ state' = authReducer(state, Action("LOGIN_START", Null, Null, Null))
    /\ calls' = [calls EXCEPT !.register = @ + 1]
    /\ last' = Done("register", "pending", NoResp, NoResp,
                    requestInterceptor(localStorage), NoStorage)
    /\ UNCHANGED <<localStorage, settling, nav, restoreRuns, starts, writer>>

\* patientsAPI.* and taskLogsAPI.*: thin request builders over api
request(kind) ==
    /\ Quiet
    /\ InFlight < MaxCalls
    /\ calls' = [calls EXCEPT ![kind] = @ + 1]
    /\ last' = Done(kind, "pending", NoResp, NoResp,
                    requestInterceptor(localStorage), NoStorage)
    /\ UNCHANGED <<state, localStorage, settling, nav, restoreRuns, starts,
                   writer>>

----------------------------------------------------------------------------
(* A response arrives: the response interceptor *)

ResponsesOf(kind) ==
    IF kind \in {"login", "register"} THEN AuthResponses ELSE DataResponses

\* bug: a request that got no response is sent again
responseRetriesNetworkError(kind, r) ==
    /\ Quiet
    /\ calls[kind] > 0
    /\ r \in ResponsesOf(kind)
    /\ localStorage' = responseInterceptorStorage(localStorage, r)
    /\ nav' = responseInterceptorNav(nav, r)
    /\ calls' = IF r.kind = "network" THEN calls
                ELSE [calls EXCEPT ![kind] = @ - 1]
    /\ settling' = [kind |-> kind, resp |-> r]
    /\ writer' = writerAfter(writer, localStorage')
    /\ last' = Done("response", "settling", r, NoResp, Undefined, NoStorage)
    /\ UNCHANGED <<state, restoreRuns, starts>>

response(kind, r) ==
    /\ Quiet
    /\ calls[kind] > 0
    /\ r \in ResponsesOf(kind)
    /\ localStorage' = responseInterceptorStorage(localStorage, r)
    /\ nav' = responseInterceptorNav(nav, r)
    /\ calls' = [calls EXCEPT ![kind] = @ - 1]
    /\ settling' = [kind |-> kind, resp |-> r]
    /\ writer' = writerAfter(writer, localStorage')
    /\ last' = Done("response", "settling", r, NoResp, Undefined, NoStorage)
    /\ UNCHANGED <<state, restoreRuns, starts>>

----------------------------------------------------------------------------
(* The continuation of login / register after the awaited call settles *)

\* error.response?.data?.error || fallback
errorMessage(r, fallback) ==
    OrElse(IF r.kind = "http" THEN r.msg ELSE Undefined, Str(fallback))

credentialWrite(st, r) ==
    setItem(setItem(st, "authToken", r.token), "user", JSONstringify(r.user))

\* bug: only the token is stored
loginStorageTokenOnly(st, r) ==
    IF r.kind = "ok" THEN setItem(st, "authToken", r.token) ELSE st

loginStorage(st, r) == IF r.kind = "ok" THEN credentialWrite(st, r) ELSE st

\* bug: the message of the server is dropped
loginDispatchGenericMessage(r) ==
    IF r.kind = "ok"
    THEN Action("LOGIN_SUCCESS", r.user, r.token, Null)
    ELSE Action("LOGIN_FAILURE", Null, Null, Str(<<"Login failed">>))

loginDispatch(r) ==
    IF r.kind = "ok"
    THEN Action("LOGIN_SUCCESS", r.user, r.token, Null)
    ELSE Action("LOGIN_FAILURE", Null, Null,
                errorMessage(r, <<"Login failed">>))

\* fulfilled with response.data, or rejected with the error caught
loginOutcome(r) == IF r.kind = "ok" THEN "fulfilled" ELSE "rejected"

\* return response / throw error: the value awaited, as it came
loginValue(r) == r

\* bug: register stores the user and not the token
registerStorageUserOnly(st, r) ==
    IF r.kind = "ok" THEN setItem(st, "user", JSONstringify(r.user)) ELSE st

registerStorage(st, r) == IF r.kind = "ok" THEN credentialWrite(st, r) ELSE st

registerDispatch(r) ==
    IF r.kind = "ok"
    THEN Action("LOGIN_SUCCESS", r.user, r.token, Null)
    ELSE Action("LOGIN_FAILURE", Null, Null,
                errorMessage(r, <<"Registration failed">>))

registerOutcome(r) == IF r.kind = "ok" THEN "fulfilled" ELSE "rejected"

registerValue(r) == r

loginSettle ==
    /\ settling.kind = "login"
    /\ localStorage' = loginStorage(localStorage, settling.resp)
    /\ state' = authReducer(state, loginDispatch(settling.resp))
    /\ settling' = NoCall
    /\ writer' = IF settling.resp.kind = "ok" THEN "login"
                 ELSE writerAfter(writer, localStorage')
    /\ last' = Done("login", loginOutcome(settling.resp), settling.resp,
                    loginValue(settling.resp), Undefined, NoStorage)
    /\ UNCHANGED <<calls, nav, restoreRuns, starts>>

registerSettle ==
    /\ settling.kind = "register"
    /\ localStorage' = registerStorage(localStorage, settling.resp)
    /\ state' = authReducer(state, registerDispatch(settling.resp))
    /\ settling' = NoCall
    /\ writer' = IF settling.resp.kind = "ok" THEN "register"
                 ELSE writerAfter(writer, localStorage')
    /\ last' = Done("register", registerOutcome(settling.resp),
                    settling.resp, registerValue(settling.resp), Undefined,
                    NoStorage)
    /\ UNCHANGED <<calls, nav, restoreRuns, starts>>

\* the caller of a patient / task-log call gets response.data or the error
requestOutcome(r) == IF r.kind = "ok" THEN "fulfilled" ELSE "rejected"

requestValue(r) == r

\* bug: the body of a patient / task-log answer is cached in storage
requestSettleCachesBody ==
    /\ settling.kind \in {"patients", "tasklogs"}
    /\ settling' = NoCall
    /\ localStorage' = IF settling.resp.kind = "ok"
                       THEN setItem(localStorage, "user", Str(<<settling.kind>>))
                       ELSE localStorage
    /\ last' = Done(settling.kind, requestOutcome(settling.resp),
                    settling.resp, requestValue(settling.resp), Undefined,
                    NoStorage)
    /\ UNCHANGED <<state, calls, nav, restoreRuns, starts, writer>>

requestSettle ==
    /\ settling.kind \in {"patients", "tasklogs"}
    /\ settling' = NoCall
    /\ last' = Done(settling.kind, requestOutcome(settling.resp),
                    settling.resp, requestValue(settling.resp), Undefined,
                    NoStorage)
    /\ UNCHANGED <<state, localStorage, calls, nav, restoreRuns, starts,
                   writer>>

----------------------------------------------------------------------------
(* logout, clearError *)

\* bug: logout removes the token and leaves the user
authAPIlogoutTokenOnly(st) == removeItem(st, "authToken")

authAPIlogout(st) == removeItem(removeItem(st, "authToken"), "user")

logout ==
    /\ Quiet
    /\ localStorage' = authAPIlogout(localStorage)
    /\ state' = authReducer(state, Action("LOGOUT", Null, Null, Null))
    /\ writer' = writerAfter(writer, localStorage')
    /\ last' = Done("logout", "returned", NoResp, NoResp, Undefined, NoStorage)
    /\ UNCHANGED <<calls, settling, nav, restoreRuns, starts>>

\* bug: CLEAR_ERROR flips isLoading as well
clearErrorTogglesLoading ==
    /\ Quiet
    /\ state' = [state EXCEPT !.error = Null, !.isLoading = ~@]
    /\ last' = Done("clearError", "returned", NoResp, NoResp, Undefined,
                    NoStorage)
    /\ UNCHANGED <<localStorage, calls, settling, nav, restoreRuns, starts,
                   writer>>

\* bug: CLEAR_ERROR ends the pending flag as well
clearErrorStopsLoading ==
    /\ Quiet
    /\ state' = [state EXCEPT !.error = Null, !.isLoading = FALSE]
    /\ last' = Done("clearError", "returned", NoResp, NoResp, Undefined,
                    NoStorage)
    /\ UNCHANGED <<localStorage, calls, settling, nav, restoreRuns, starts,
                   writer>>

clearError ==
    /\ Quiet
    /\ state' = authReducer(state, Action("CLEAR_ERROR", Null, Null, Null))
    /\ last' = Done("clearError", "returned", NoResp, NoResp, Undefined,
                    NoStorage)
    /\ UNCHANGED <<localStorage, calls, settling, nav, restoreRuns, starts,
                   writer>>

----------------------------------------------------------------------------
(* A page load: the navigation the interceptor forced, a refresh, or the  *)
(* window closed and the application opened again.  The document and every *)
(* call it had in flight are gone; localStorage stays.  The record of the  *)
(* step tells whether the store that went was Authenticated.               *)

pageLoad ==
    /\ Quiet
    /\ starts < MaxStarts
    /\ state' = initialState
    /\ calls' = [k \in Kinds |-> 0]
    /\ nav' = "none"
    /\ restoreRuns' = 0
    /\ starts' = starts + 1
    /\ last' = Done("start",
                    IF Authenticated(state) THEN "was authenticated"
                    ELSE "none",
                    NoResp, NoResp, Undefined, NoStorage)
    /\ UNCHANGED <<localStorage, settling, writer>>

----------------------------------------------------------------------------

Next ==
    \/ restore
    \/ login
    \/ register
    \/ \E kind \in {"patients", "tasklogs"} : request(kind)
    \/ \E kind \in Kinds, r \in AuthResponses \cup DataResponses :
          response(kind, r)
    \/ loginSettle
    \/ registerSettle
    \/ requestSettle
    \/ logout
    \/ clearError
    \/ pageLoad

Spec == Init /\ [][Next]_vars

----------------------------------------------------------------------------
(* Role queries of the context value *)

\* user.role, undefined when the user is not an object
roleOf(u) == IF u.t = "object" THEN Str(<<u.role>>) ELSE Undefined

\* an array of role names
Array(items) == [t |-> "array", s |-> <<>>, id |-> "", role |-> "",
                 items |-> items]

\* bug: isAdmin compares with the other role
isAdminComparesClinician(s) == roleOf(s.user) = Str(<<"clinician">>)

\* state.user?.role === "admin"
isAdmin(s) == roleOf(s.user) = Str(<<"admin">>)

isClinician(s) == roleOf(s.user) = Str(<<"clinician">>)

\* bug: an array argument is compared like a single role
hasRoleComparesArray(s, roles) ==
    IF ~Truthy(s.user) THEN FALSE ELSE roleOf(s.user) = roles

hasRole(s, roles) ==
    IF ~Truthy(s.user) THEN FALSE
    ELSE IF roles.t = "array" THEN roleOf(s.user) \in roles.items
    ELSE roleOf(s.user) = roles

----------------------------------------------------------------------------
(* Route guards: what a guarded route renders in a store state *)

\* bug: the guard does not wait for isLoading
ProtectedRouteIgnoresLoading(s) ==
    IF ~s.isAuthenticated THEN "Navigate /login" ELSE "children"

ProtectedRoute(s) ==
    IF s.isLoading THEN "LoadingSpinner"
    ELSE IF ~s.isAuthenticated THEN "Navigate /login"
    ELSE "children"

\* bug: the role guard lets every role through
RoleProtectedRouteAllowsAll(s, allowedRoles) == "children"

RoleProtectedRoute(s, allowedRoles) ==
    IF ~hasRole(s, allowedRoles) THEN "Access Denied" ELSE "children"

\* /patients/new, /patients/:id/edit and /admin/*: a ProtectedRoute around a
\* RoleProtectedRoute with allowedRoles = ["admin"]
AdminRoute(s) ==
    IF ProtectedRoute(s) = "children"
    THEN RoleProtectedRoute(s, Array({Str(<<"admin">>)}))
    ELSE ProtectedRoute(s)

----------------------------------------------------------------------------
(* handleApiError: what a view's catch block makes of a thrown error *)

\* an axios error: the response if one came, whether the request was sent,
\* and the message of the Error
AxiosError(resp, sent, message) ==
    [response |-> resp, request |-> sent, message |-> message]

\* error.response.data of an HTTP error answer: {error: msg}
Data(r) == [present |-> TRUE, error |-> r.msg]
NoData == [present |-> FALSE, error |-> Undefined]

Normalized(message, status, details) ==
    [message |-> message, status |-> status, details |-> details]

\* bug: the response branch reports status 0
handleApiErrorDropsStatus(error) ==
    IF error.response # NoResp
    THEN Normalized(OrElse(error.response.msg, Str(<<"An error occurred">>)),
                    0, Data(error.response))
    ELSE IF error.request
    THEN Normalized(Str(<<"Network error. Please check your connection.">>),
                    0, NoData)
    ELSE Normalized(OrElse(error.message,
                           Str(<<"An unexpected error occurred">>)),
                    -1, NoData)

handleApiError(error) ==
    IF error.response # NoResp
    THEN Normalized(OrElse(error.response.msg, Str(<<"An error occurred">>)),
                    error.response.status, Data(error.response))
    ELSE IF error.request
    THEN Normalized(Str(<<"Network error. Please check your connection.">>),
                    0, NoData)
    ELSE Normalized(OrElse(error.message,
                           Str(<<"An unexpected error occurred">>)),
                    -1, NoData)

----------------------------------------------------------------------------
(* The queries applied in any store state *)

Nurse == Obj("u3", "nurse")
RoleNames == {Str(<<"admin">>), Str(<<"clinician">>), Str(<<"nurse">>)}

\* arguments of hasRole: arrays of role names and single role names
RoleArguments ==
    {Array(rs) : rs \in {{}, {Str(<<"admin">>)},
                         {Str(<<"admin">>), Str(<<"clinician">>)}}}
    \cup RoleNames

StoreStates ==
    [user : {Null, Undefined, Admin, Clinician, Nurse},
     token : {Null, TokenA},
     isAuthenticated : BOOLEAN,
     isLoading : BOOLEAN,
     error : {Null, ServerMessage}]

\* errors a catch block can hold: an HTTP error answer, a request without
\* an answer (connection failure, timeout), and an error thrown before any
\* request was made
ThrownErrors ==
    {AxiosError(HttpError(st, m), TRUE,
                Str(<<"Request failed with status code">>)) :
        st \in ErrorStatuses, m \in {Undefined, Str(<<>>), ServerMessage}}
    \cup {AxiosError(NoResp, TRUE, m) :
            m \in {Str(<<"Network Error">>),
                   Str(<<"timeout of 10000ms exceeded">>)}}
    \cup {AxiosError(NoResp, FALSE, m) :
            m \in {Undefined, Str(<<>>), Str(<<"patient is undefined">>)}}

Queried(op, arg, result) == [op |-> op, arg |-> arg, result |-> result]

InitQueries ==
    /\ state \in StoreStates
    /\ localStorage \in [authToken : StoredTokens,
                         user : {Null, JSONstringify(Admin)}]
    /\ calls = [k \in Kinds |-> 0]
    /\ settling = NoCall
    /\ nav = "none"
    /\ restoreRuns = 1
    /\ starts = 1
    /\ writer = "none"
    /\ last = Done("init", "none", NoResp, NoResp, Undefined, NoStorage)

isAdminQuery ==
    /\ last' = Queried("isAdmin", Undefined, isAdmin(state))
    /\ UNCHANGED <<state, localStorage, calls, settling, nav, restoreRuns,
                   starts, writer>>

isClinicianQuery ==
    /\ last' = Queried("isClinician", Undefined, isClinician(state))
    /\ UNCHANGED <<state, localStorage, calls, settling, nav, restoreRuns,
                   starts, writer>>

hasRoleQuery(roles) ==
    /\ last' = Queried("hasRole", roles, hasRole(state, roles))
    /\ UNCHANGED <<state, localStorage, calls, settling, nav, restoreRuns,
                   starts, writer>>

\* a catch block of PatientList, PatientForm or TaskLogList
catchError(error) ==
    /\ last' = Queried("handleApiError", error, handleApiError(error))
    /\ UNCHANGED <<state, localStorage, calls, settling, nav, restoreRuns,
                   starts, writer>>

NextQueries ==
    \/ isAdminQuery
    \/ isClinicianQuery
    \/ \E roles \in RoleArguments : hasRoleQuery(roles)
    \/ \E error \in ThrownErrors : catchError(error)

SpecQueries == InitQueries /\ [][NextQueries]_vars

----------------------------------------------------------------------------
(* The forms: Login, Register and PatientForm.  A text field is a sequence *)
(* of characters; the errors object is modelled by the set of its keys.    *)

Whitespace == {" "}
MinPasswordLength == 6
MaxAgeYears == 150

\* String.prototype.trim
trim(x) ==
    LET keep == {i \in DOMAIN x : x[i] \notin Whitespace} IN
    IF keep = {} THEN <<>>
    ELSE SubSeq(x, CHOOSE i \in keep : \A j \in keep : i <= j,
                   CHOOSE i \in keep : \A j \in keep : j <= i)

\* [^\s@]+ matches x[a..b]
NoSpaceNoAt(x, a, b) ==
    a <= b /\ \A i \in a..b : x[i] \notin Whitespace \cup {"@"}

\* /^[^\s@]+@[^\s@]+\.[^\s@]+$/.test(x)
emailPattern(x) ==
    \E i, j \in DOMAIN x :
        /\ x[i] = "@" /\ x[j] = "."
        /\ NoSpaceNoAt(x, 1, i - 1)
        /\ NoSpaceNoAt(x, i + 1, j - 1)
        /\ NoSpaceNoAt(x, j + 1, Len(x))

emailErrors(formData) ==
    IF trim(formData.email) = <<>> THEN {"email"}
    ELSE IF ~emailPattern(formData.email) THEN {"email"}
    ELSE {}

LoginValidateForm(formData) ==
    emailErrors(formData)
    \cup (IF formData.password = <<>> THEN {"password"} ELSE {})

RegisterValidateForm(formData) ==
    (IF trim(formData.firstName) = <<>> THEN {"firstName"} ELSE {})
    \cup (IF trim(formData.lastName) = <<>> THEN {"lastName"} ELSE {})
    \cup emailErrors(formData)
    \cup (IF formData.password = <<>> THEN {"password"}
          ELSE IF Len(formData.password) < MinPasswordLength
          THEN {"password"} ELSE {})
    \cup (IF formData.password # formData.confirmPassword
          THEN {"confirmPassword"} ELSE {})
    \cup (IF formData.role = <<>> THEN {"role"} ELSE {})

\* the value of the date field: empty, a date (in years from today) or a
\* text new Date() makes an Invalid Date of, which every comparison fails
NoDate == [given |-> FALSE, valid |-> FALSE, year |-> 0]
DateAt(y) == [given |-> TRUE, valid |-> TRUE, year |-> y]
InvalidDate == [given |-> TRUE, valid |-> FALSE, year |-> 0]

PatientFormValidateForm(formData) ==
    (IF trim(formData.firstName) = <<>> THEN {"firstName"} ELSE {})
    \cup (IF trim(formData.lastName) = <<>> THEN {"lastName"} ELSE {})
    \cup (IF trim(formData.medicalRecordNumber) = <<>>
          THEN {"medicalRecordNumber"} ELSE {})
    \cup (IF formData.dateOfBirth.given /\ formData.dateOfBirth.valid
             /\ (formData.dateOfBirth.year > 0
                 \/ formData.dateOfBirth.year < 0 - MaxAgeYears)
          THEN {"dateOfBirth"} ELSE {})

\* what the user can have typed
Emails ==
    {<<>>, <<" ">>, <<"a", "@", "b">>, <<"a", "@", "b", ".", "c">>,
     <<" ", "a", "@", "b", ".", "c">>}
Passwords ==
    {<<>>, <<"1", "2", "3", "4", "5">>, <<"1", "2", "3", "4", "5", "6">>}
Texts == {<<>>, <<" ">>, <<"A", " ">>}
RoleChoices == {<<>>, <<"clinician">>}
BirthDates ==
    {NoDate, InvalidDate, DateAt(1), DateAt(0), DateAt(0 - MaxAgeYears),
     DateAt(0 - MaxAgeYears - 1)}

LoginForms == [email : Emails, password : Passwords]
RegisterForms ==
    [firstName : Texts \ {<<>>}, lastName : Texts \ {<<" ">>},
     email : Emails \ {<<>>, <<" ">>}, password : Passwords,
     confirmPassword : Passwords \ {<<>>}, role : RoleChoices]
PatientForms ==
    [firstName : Texts \ {<<>>}, lastName : Texts \ {<<" ">>},
     medicalRecordNumber : Texts \ {<<" ">>}, dateOfBirth : BirthDates]

\* mode: the mode of a PatientForm, "create" or "edit"
Submitted(op, mode, formData, errors) ==
    [op |-> op, mode |-> mode, form |-> formData, errors |-> errors]

\* bug: handleSubmit goes on to login after setting the validation errors
LoginHandleSubmitNoReturn(formData) ==
    /\ Quiet
    /\ InFlight < MaxCalls
    /\ state' = authReducer(state, Action("LOGIN_START", Null, Null, Null))
    /\ calls' = [calls EXCEPT !.login = @ + 1]
    /\ last' = Submitted("Login.handleSubmit", "none", formData,
                         LoginValidateForm(formData))
    /\ UNCHANGED <<localStorage, settling, nav, restoreRuns, starts, writer>>

\* Login.handleSubmit: with errors, setValidationErrors and return; without,
\* login(formData), that is LOGIN_START and the request
LoginHandleSubmit(formData) ==
    /\ Quiet
    /\ IF LoginValidateForm(formData) # {}
       THEN UNCHANGED <<state, calls>>
       ELSE /\ InFlight < MaxCalls
            /\ state' = authReducer(state,
                                    Action("LOGIN_START", Null, Null, Null))
            /\ calls' = [calls EXCEPT !.login = @ + 1]
    /\ last' = Submitted("Login.handleSubmit", "none", formData,
                         LoginValidateForm(formData))
    /\ UNCHANGED <<localStorage, settling, nav, restoreRuns, starts, writer>>

\* Register.handleSubmit: as Login's, with register(registrationData)
RegisterHandleSubmit(formData) ==
    /\ Quiet
    /\ IF RegisterValidateForm(formData) # {}
       THEN UNCHANGED <<state, calls>>
       ELSE /\ InFlight < MaxCalls
            /\ state' = authReducer(state,
                                    Action("LOGIN_START", Null, Null, Null))
            /\ calls' = [calls EXCEPT !.register = @ + 1]
    /\ last' = Submitted("Register.handleSubmit", "none", formData,
                         RegisterValidateForm(formData))
    /\ UNCHANGED <<localStorage, settling, nav, restoreRuns, starts, writer>>

\* PatientForm.handleSubmit: without errors, patientsAPI.create(formData) in
\* mode "create" and patientsAPI.update(id, formData) in mode "edit"
PatientFormHandleSubmit(formData, mode) ==
    /\ Quiet
    /\ IF PatientFormValidateForm(formData) # {}
       THEN UNCHANGED calls
       ELSE /\ InFlight < MaxCalls
            /\ calls' = [calls EXCEPT !.patients = @ + 1]
    /\ last' = Submitted("PatientForm.handleSubmit", mode, formData,
                         PatientFormValidateForm(formData))
    /\ UNCHANGED <<state, localStorage, settling, nav, restoreRuns, starts,
                   writer>>

\* the forms are used in a session that restore left Anonymous, or
\* Authenticated as the administrator
InitForms ==
    /\ \E p \in {[user |-> Null, token |-> Null],
                 [user |-> Admin, token |-> TokenA]} :
          /\ state = authReducer(initialState,
                        Action("LOAD_USER_FROM_STORAGE", p.user, p.token,
                               Null))
          /\ localStorage = IF p.user = Null THEN NoStorage
                            ELSE [authToken |-> p.token,
                                  user |-> JSONstringify(p.user)]
    /\ calls = [k \in Kinds |-> 0]
    /\ settling = NoCall
    /\ nav = "none"
    /\ restoreRuns = 1
    /\ starts = 1
    /\ writer = "none"
    /\ last = Done("restore", "returned", NoResp, NoResp, Undefined,
                   localStorage)

NextForms ==
    \/ \E formData \in LoginForms : LoginHandleSubmit(formData)
    \/ \E formData \in RegisterForms : RegisterHandleSubmit(formData)
    \/ \E formData \in PatientForms, mode \in {"create", "edit"} :
          PatientFormHandleSubmit(formData, mode)

SpecForms == InitForms /\ [][NextForms]_vars

----------------------------------------------------------------------------
(* Calls already in flight: their answers come in and are delivered, and   *)
(* no other operation is invoked meanwhile                                 *)

SessionKinds == {"login", "register"}

\* login / register calls in flight, n of them
SessionCallsInFlight(n) ==
    {c \in [Kinds -> 0..n] :
        /\ c.patients = 0 /\ c.tasklogs = 0
        /\ c.login + c.register = n}

\* the store and storage restore leaves: Anonymous, or Authenticated as the
\* administrator
RestoredSessions ==
    {[state |-> authReducer(initialState,
                    Action("LOAD_USER_FROM_STORAGE", Null, Null, Null)),
      localStorage |-> NoStorage],
     [state |-> authReducer(initialState,
                    Action("LOAD_USER_FROM_STORAGE", Admin, TokenA, Null)),
      localStorage |-> [authToken |-> TokenA, user |-> JSONstringify(Admin)]]}

\* two login / register calls were started one after the other
InitRace ==
    /\ \E session \in RestoredSessions :
          /\ state = authReducer(session.state,
                                 Action("LOGIN_START", Null, Null, Null))
          /\ localStorage = session.localStorage
    /\ calls \in SessionCallsInFlight(2)
    /\ settling = NoCall
    /\ nav = "none"
    /\ restoreRuns = 1
    /\ starts = 1
    /\ writer = "none"
    /\ \E kind \in SessionKinds :
          /\ calls[kind] > 0
          /\ last = Done(kind, "pending", NoResp, NoResp,
                         requestInterceptor(localStorage), NoStorage)

\* logout() ran while login / register calls were in flight
InitAfterLogout ==
    /\ state = authReducer(initialState, Action("LOGOUT", Null, Null, Null))
    /\ localStorage = authAPIlogout(NoStorage)
    /\ \E n \in 1..MaxCalls : calls \in SessionCallsInFlight(n)
    /\ settling = NoCall
    /\ nav = "none"
    /\ restoreRuns = 1
    /\ starts = 1
    /\ writer = "none"
    /\ last = Done("logout", "returned", NoResp, NoResp, Undefined, NoStorage)

NextResolve ==
    \/ \E kind \in SessionKinds, r \in AuthResponses : response(kind, r)
    \/ loginSettle
    \/ registerSettle

SpecRace == InitRace /\ [][NextResolve]_vars

SpecAfterLogout == InitAfterLogout /\ [][NextResolve]_vars

----------------------------------------------------------------------------
(* Properties *)

Delivered == last.outcome \in {"fulfilled", "rejected"}
SessionCall == last.op \in {"login", "register"}
Is401(r) == r.kind = "http" /\ r.status = Unauthorized
ValidPayload(r) ==
    r.kind = "ok" /\ r.user \in ValidUsers /\ r.token \in ValidTokens

\* C1: in every reachable state, isAuthenticated is true iff both user and
\* token are present (responses with a null or missing field included).
C1_IsAuthenticatedIffUserAndToken ==
    state.isAuthenticated <=> (Present(state.user) /\ Present(state.token))

\* C2: when the request of login or register succeeds with payload
\* {user, token}, storage holds authToken = token and user = the serialized
\* user, the store is Authenticated with exactly that user and token,
\* isLoading is false, the error is absent, and the caller gets the payload.
C2_SuccessWritesAndAuthenticates ==
    (SessionCall /\ Delivered /\ ValidPayload(last.resp)) =>
        /\ localStorage.authToken = last.resp.token
        /\ localStorage.user = JSONstringify(last.resp.user)
        /\ Authenticated(state)
        /\ state.user = last.resp.user
        /\ state.token = last.resp.token
        /\ ~state.isLoading
        /\ state.error = Null
        /\ last.outcome = "fulfilled"
        /\ last.value = last.resp

C2_Witness ==
    /\ last.op = "login" /\ last.outcome = "fulfilled"
    /\ last.resp.user = Admin /\ last.resp.token = TokenA
    /\ localStorage.authToken = Str(<<"abc">>)

Fallback(op) ==
    IF op = "login" THEN Str(<<"Login failed">>)
    ELSE Str(<<"Registration failed">>)

\* C3: when the request of login or register fails (an HTTP error status, or
\* no response), the store becomes Anonymous with the error set to the
\* message of the server if it sent one and to the generic fallback
\* otherwise, and the failure itself is thrown to the caller.
C3_FailureIsAnonymousWithMessage ==
    (SessionCall /\ Delivered /\ last.resp.kind # "ok") =>
        /\ Anonymous(state)
        /\ state.error =
              IF last.resp.kind = "http" /\ last.resp.msg = ServerMessage
              THEN ServerMessage ELSE Fallback(last.op)
        /\ last.outcome = "rejected"
        /\ last.value = last.resp

C3_Witness ==
    /\ last.op = "login" /\ last.outcome = "rejected"
    /\ last.resp = HttpError(500, ServerMessage)
    /\ state.error = ServerMessage

\* C4: from every state, logout() is possible and does not throw, and it
\* leaves storage with neither key and the store Anonymous with no error.
C4_LogoutAlwaysAnonymous ==
    /\ Quiet => ENABLED logout
    /\ last.op = "logout" =>
        /\ last.outcome = "returned"
        /\ StorageEmpty(localStorage)
        /\ state = [user |-> Null, token |-> Null, isAuthenticated |-> FALSE,
                    isLoading |-> FALSE, error |-> Null]

C4_Witness ==
    /\ last.op = "logout"
    /\ calls.login > 0
    /\ starts > 1

C6_EraseAndNavigateBeforeRejection ==
    /\ (settling # NoCall /\ Is401(settling.resp)) =>
          StorageEmpty(localStorage) /\ nav = "/login"
    /\ (Delivered /\ Is401(last.resp)) =>
          last.outcome = "rejected" /\ last.value = last.resp

C6_Witness ==
    /\ settling.kind = "tasklogs"
    /\ Is401(settling.resp)
    /\ writer = "none" /\ nav = "/login"

\* C7: for every valid {token, user} pair that login or register wrote, a
\* later start whose restore reads that pair yields Authenticated with the
\* same token and a user with the same fields.
C7_RestoreInvertsCredentialWrite ==
    last.op = "restore" =>
        \A u \in ValidUsers, t \in ValidTokens :
            last.read = [authToken |-> t, user |-> JSONstringify(u)] =>
                /\ Authenticated(state)
                /\ state.user = u
                /\ state.token = t
                /\ ~state.isLoading
                /\ localStorage = last.read

C7_Witness ==
    /\ last.op = "restore" /\ starts > 1
    /\ writer = "register"
    /\ state.user = Clinician /\ state.token = TokenB

MalformedUsers == {Str(<<"undefined">>), Str(<<"{bad">>)}

C9_MissingFieldClearsStorage ==
    (last.op = "restore"
        /\ (last.read.authToken = Null \/ last.read.user = Null)) =>
        Anonymous(state) /\ StorageEmpty(localStorage)

\* C10: a process starts in Unknown; restore runs once per start and leaves
\* the store Authenticated or Anonymous with isLoading false; it does not
\* run again after a login, register or logout.
C10_RestoreOnceToAuthenticatedOrAnonymous ==
    /\ last.op \in {"init", "start"} => Unknown(state) /\ restoreRuns = 0
    /\ restoreRuns <= 1
    /\ last.op = "restore" =>
          (Authenticated(state) \/ Anonymous(state)) /\ ~state.isLoading

Pending == last.outcome = "pending"
Bearer(t) == Str(<<"Bearer ">> \o t.s)

\* the stored pair is what login or register writes for a {user, token} body
StoredSession ==
    /\ writer \in {"login", "register"}
    /\ localStorage.authToken \in ValidTokens
    /\ localStorage.user \in {JSONstringify(u) : u \in ValidUsers}

\* the step is the response interceptor handling answer r
Answers(r) == Quiet /\ settling' # NoCall /\ settling'.resp = r

ClearErrorAction == Action("CLEAR_ERROR", Null, Null, Null)

\* C14: from every reachable store state, clearError called twice in
\* succession leaves the state the first call left.
C14_ClearErrorIdempotent ==
    /\ [](authReducer(authReducer(state, ClearErrorAction), ClearErrorAction)
            = authReducer(state, ClearErrorAction))
    /\ [][(last.op = "clearError" /\ last'.op = "clearError") =>
            state' = state /\ localStorage' = localStorage]_vars

C14_Witness ==
    /\ last.op = "clearError"
    /\ state.error = Null
    /\ state.isLoading /\ state.isAuthenticated
    /\ ENABLED clearError

\* C15: clearError sets the error to absent and leaves user, token,
\* isAuthenticated, isLoading and storage as they were, also while a login or
\* register is pending.
C15_ClearErrorTouchesOnlyError ==
    [][last'.op = "clearError" =>
        /\ state'.error = Null
        /\ state'.user = state.user
        /\ state'.token = state.token
        /\ state'.isAuthenticated = state.isAuthenticated
        /\ state'.isLoading = state.isLoading
        /\ localStorage' = localStorage]_vars

C15_Witness ==
    /\ last.op = "clearError"
    /\ calls.login > 0
    /\ state.isLoading
    /\ state.error = Null

Erased(k) == localStorage[k] # Null /\ localStorage'[k] = Null

\* the step is the continuation of a call that writes no credentials
DeliversNoCredentials ==
    /\ settling # NoCall
    /\ ~(settling.kind \in {"login", "register"} /\ settling.resp.kind = "ok")

\* C17: a key leaves storage only in logout, in the answer of a 401, or in a
\* restore that read a token and a user that is not JSON; the answer of any
\* other HTTP error status, of no response (connection failure, timeout) and
\* of a success, and the delivery of each of them to a caller that is not a
\* successful login or register, leave both keys and the location unchanged.
C17_ErasedOnlyByLogout401OrRestore ==
    [][/\ (Erased("authToken") \/ Erased("user")) =>
            \/ last'.op = "logout"
            \/ \E r \in AuthResponses \cup DataResponses :
                  Is401(r) /\ Answers(r)
            \/ /\ last'.op = "restore"
               /\ Present(last'.read.authToken)
               /\ last'.read.user \in MalformedUsers
       /\ \A r \in AuthResponses \cup DataResponses :
            (Answers(r) /\ ~Is401(r)) =>
                localStorage' = localStorage /\ nav' = nav
       /\ (DeliversNoCredentials /\ ~Is401(settling.resp)) =>
            localStorage' = localStorage /\ nav' = nav]_vars

C17_Witness ==
    /\ last.op = "patients" /\ last.outcome = "rejected"
    /\ last.resp.kind = "http" /\ last.resp.status # Unauthorized
    /\ writer = "login"
    /\ localStorage.authToken = TokenA
    /\ nav = "none"

\* C18: a ProtectedRoute renders its children exactly when isLoading is
\* false and isAuthenticated is true; while isLoading is true it renders the
\* loading indicator, and with both false it redirects to /login; so in no
\* reachable state are the children rendered with isAuthenticated false.
C18_ProtectedRouteRendersChildrenOnlyAuthenticated ==
    /\ ProtectedRoute(state) = "children" <=>
          (~state.isLoading /\ state.isAuthenticated)
    /\ state.isLoading => ProtectedRoute(state) = "LoadingSpinner"
    /\ (~state.isLoading /\ ~state.isAuthenticated) =>
          ProtectedRoute(state) = "Navigate /login"

C18_Witness ==
    /\ last.op = "login" /\ last.outcome = "fulfilled"
    /\ ProtectedRoute(state) = "children"
    /\ writer = "login"

AdminUser(s) == Present(s.user) /\ roleOf(s.user) = Str(<<"admin">>)

\* C19: once the store has left Unknown, an admin-only route renders its
\* content only when the session is Authenticated with user.role "admin",
\* and renders Access Denied for every other role and for an absent user.
C19_AdminRouteContentOrAccessDenied ==
    ~state.isLoading =>
        /\ AdminRoute(state) = "children" =>
              Authenticated(state) /\ AdminUser(state)
        /\ ~AdminUser(state) => AdminRoute(state) = "Access Denied"

\* C19 amended: an admin-only route renders its content only when isLoading
\* is false, isAuthenticated is true and user.role is "admin"; it renders
\* Access Denied exactly when isLoading is false, isAuthenticated is true
\* and the user is absent or has another role; otherwise it renders what
\* ProtectedRoute renders, the loading indicator or the redirect to /login.
C19_AdminRouteGuards ==
    /\ AdminRoute(state) = "children" <=>
          (~state.isLoading /\ state.isAuthenticated /\ AdminUser(state))
    /\ AdminRoute(state) = "Access Denied" <=>
          (~state.isLoading /\ state.isAuthenticated /\ ~AdminUser(state))
    /\ state.isLoading => AdminRoute(state) = "LoadingSpinner"
    /\ (~state.isLoading /\ ~state.isAuthenticated) =>
          AdminRoute(state) = "Navigate /login"

C19_Witness ==
    /\ AdminRoute(state) = "Access Denied"
    /\ state.user = Clinician
    /\ last.op = "register" /\ last.outcome = "fulfilled"

RoleQueries == {"isAdmin", "isClinician", "hasRole"}
AdminOnly == Array({Str(<<"admin">>)})

\* C12: in every store state hasRole(["admin"]) is false when the user is
\* absent and true only when user.role is "admin"; hasRole of an array is
\* true iff a user is present and user.role is one of its members, and
\* hasRole of a single role iff a user is present and user.role is that role.
C12_HasRoleIsRoleMembership ==
    last.op = "hasRole" =>
        /\ last.arg = AdminOnly =>
              /\ ~Present(state.user) => ~last.result
              /\ last.result => state.user.role = "admin"
        /\ last.arg.t = "array" =>
              (last.result <=>
                  /\ Present(state.user)
                  /\ Str(<<state.user.role>>) \in last.arg.items)
        /\ last.arg.t # "array" =>
              (last.result <=>
                  /\ Present(state.user)
                  /\ Str(<<state.user.role>>) = last.arg)

C12_Witness ==
    /\ last.op = "hasRole"
    /\ last.arg = Array({Str(<<"admin">>), Str(<<"clinician">>)})
    /\ state.user = Clinician
    /\ last.result

\* the answer the query recorded in q gives in store state s
Answer(s, q) ==
    CASE q.op = "isAdmin" -> isAdmin(s)
      [] q.op = "isClinician" -> isClinician(s)
      [] q.op = "hasRole" -> hasRole(s, q.arg)

\* C13: isAdmin, isClinician and hasRole change neither the store nor
\* storage, answer false when no user is present, answer the same in any
\* two store states whose user has the same role, isAdmin agrees with
\* hasRole(["admin"]), and isAdmin and isClinician are never both true.
C13_RoleQueriesArePure ==
    /\ [](/\ isAdmin(state) = hasRole(state, AdminOnly)
          /\ ~(isAdmin(state) /\ isClinician(state))
          /\ last.op \in RoleQueries =>
                /\ ~Present(state.user) => ~last.result
                /\ \A s \in StoreStates :
                      (Present(s.user) /\ Present(state.user)
                          /\ s.user.role = state.user.role) =>
                          Answer(s, last) = last.result)
    /\ [][last'.op \in RoleQueries =>
            state' = state /\ localStorage' = localStorage]_vars

C13_Witness ==
    /\ last.op = "isAdmin"
    /\ last.result
    /\ state.user = Admin
    /\ ~isClinician(state)

ServerSupplied(m) == m.t = "string" /\ m.s # <<>>
NetworkMessage == Str(<<"Network error. Please check your connection.">>)

\* what the claim says of an error that carries an HTTP response
ResponseShape(e, n) ==
    /\ n.message = IF ServerSupplied(e.response.msg) THEN e.response.msg
                   ELSE Str(<<"An error occurred">>)
    /\ n.status = e.response.status
    /\ n.details = Data(e.response)

\* C16: every error is normalized to one of two shapes: with an HTTP
\* response, {message: the message of the server or the generic fallback,
\* status: the HTTP status, details: the body}; with no response, status 0
\* and the network-error message.
C16_NormalizedToResponseOrNetworkShape ==
    last.op = "handleApiError" =>
        /\ last.arg.response # NoResp => ResponseShape(last.arg, last.result)
        /\ last.arg.response = NoResp =>
              /\ last.result.status = 0
              /\ last.result.message = NetworkMessage

\* C16 amended: handleApiError gives every error exactly one of three
\* shapes: with an HTTP response, {message: the message of the server or
\* "An error occurred", status: the HTTP status, details: the body}; with a
\* request sent and no response, status 0 and the network-error message;
\* with neither, status -1 and the message of the error or "An unexpected
\* error occurred".
C16_NormalizedToOneOfThreeShapes ==
    last.op = "handleApiError" =>
        /\ last.arg.response # NoResp => ResponseShape(last.arg, last.result)
        /\ (last.arg.response = NoResp /\ last.arg.request) =>
              /\ last.result.status = 0
              /\ last.result.message = NetworkMessage
              /\ last.result.details = NoData
        /\ (last.arg.response = NoResp /\ ~last.arg.request) =>
              /\ last.result.status = -1
              /\ last.result.message =
                    IF ServerSupplied(last.arg.message) THEN last.arg.message
                    ELSE Str(<<"An unexpected error occurred">>)
              /\ last.result.details = NoData

C16_Witness ==
    /\ last.op = "handleApiError"
    /\ last.arg.response.kind = "http"
    /\ last.arg.response.status # Unauthorized
    /\ last.arg.response.msg = Undefined
    /\ last.result.message = Str(<<"An error occurred">>)
    /\ last.result.status = last.arg.response.status

SubmitOps ==
    {"Login.handleSubmit", "Register.handleSubmit",
     "PatientForm.handleSubmit"}

NotBlank(x) == \E i \in DOMAIN x : x[i] # " "
WellFormedEmail(x) == x = <<"a", "@", "b", ".", "c">>

\* what the data of a submission that passed validation looks like
PassedValidation(l) ==
    CASE l.op = "Login.handleSubmit" ->
            WellFormedEmail(l.form.email) /\ Len(l.form.password) > 0
      [] l.op = "Register.handleSubmit" ->
            /\ NotBlank(l.form.firstName) /\ NotBlank(l.form.lastName)
            /\ WellFormedEmail(l.form.email)
            /\ Len(l.form.password) >= 6
            /\ l.form.confirmPassword = l.form.password
            /\ l.form.role # <<>>
      [] l.op = "PatientForm.handleSubmit" ->
            /\ NotBlank(l.form.firstName) /\ NotBlank(l.form.lastName)
            /\ NotBlank(l.form.medicalRecordNumber)
            /\ l.form.dateOfBirth \in
                  {NoDate, InvalidDate}
                  \cup {DateAt(0 - y) : y \in 0..150}

\* the one call a submission can start
CallOf(l) ==
    CASE l.op = "Login.handleSubmit" -> "login"
      [] l.op = "Register.handleSubmit" -> "register"
      [] l.op = "PatientForm.handleSubmit" -> "patients"

\* C20: a submission whose validation reports an error starts no API call
\* and leaves the store and storage as they were (no pending flag, no
\* error); a call is started only by a submission without errors, whose
\* data passed every check of its form, and it is the call of that form.
C20_ValidationErrorsNeverReachNetwork ==
    [][/\ (last'.op \in SubmitOps /\ last'.errors # {}) =>
            calls' = calls /\ state' = state /\ localStorage' = localStorage
       /\ calls' # calls =>
            /\ last'.op \in SubmitOps
            /\ last'.errors = {}
            /\ PassedValidation(last')
            /\ calls' = [calls EXCEPT ![CallOf(last')] = @ + 1]]_vars

C20_Witness ==
    /\ last.op = "Register.handleSubmit"
    /\ last.errors = {"confirmPassword"}
    /\ InFlight = 0
    /\ ~state.isLoading /\ state.error = Null

StorageKeys == {"authToken", "user"}
DataKinds == {"patients", "tasklogs"}

\* C21: storage has the two keys authToken and user and no other; sending a
\* patient or task-log request, its answer when that is not a 401, and the
\* delivery of the answer to the caller write nothing to storage.
C21_OnlyCredentialKeysInStorage ==
    /\ [](DOMAIN localStorage = StorageKeys)
    /\ [][/\ (last'.op \in DataKinds /\ last'.outcome = "pending") =>
                localStorage' = localStorage
          /\ settling.kind \in DataKinds => localStorage' = localStorage
          /\ \A r \in DataResponses :
                (Answers(r) /\ settling'.kind \in DataKinds /\ ~Is401(r)) =>
                    localStorage' = localStorage]_vars

C21_Witness ==
    /\ last.op = "tasklogs" /\ last.outcome = "fulfilled"
    /\ writer = "register"
    /\ localStorage = [authToken |-> TokenB,
                       user |-> JSONstringify(Clinician)]

\* C22: when the window of an Authenticated session is closed and the
\* application is started again, restore leaves the store Anonymous and
\* takes no credential from storage.
C22_WindowCloseLogsOut ==
    [][(last.op = "start" /\ last.outcome = "was authenticated"
            /\ last'.op = "restore") =>
          /\ Anonymous(state')
          /\ ~Present(last'.read.authToken)
          /\ ~Present(last'.read.user)]_vars

\* the store after a failed login or register
ErrorState(s) == Anonymous(s) /\ Present(s.error)

\* C23: a failed login or register (HTTP error, 401, no response) leaves an
\* error state; in every state login can be called, its request can be
\* answered and the answer delivered, and from every state the delivery of
\* a successful answer with {user, token} leaves the store Authenticated
\* with the error absent and isLoading false.
C23_NoFailureIsFatal ==
    /\ []((SessionCall /\ Delivered /\ last.resp.kind # "ok") =>
            ErrorState(state))
    /\ []((Quiet /\ InFlight < MaxCalls) => ENABLED login)
    /\ []((Quiet /\ calls.login > 0) =>
            \A p \in OkPayloads : ENABLED response("login", OkResp(p)))
    /\ [](settling.kind = "login" => ENABLED loginSettle)
    /\ [][(settling.kind = "login" /\ ValidPayload(settling.resp)) =>
            /\ Authenticated(state')
            /\ state'.error = Null
            /\ ~state'.isLoading]_vars

C23_Witness ==
    /\ last.op = "login" /\ last.outcome = "rejected"
    /\ last.resp = NetworkError
    /\ ErrorState(state)
    /\ state.error = Str(<<"Login failed">>)
    /\ ENABLED login

\* C24: with two login / register calls in flight, once both answers are
\* delivered the store and storage are those of the answer delivered last:
\* its user and token when it succeeded, Anonymous and no credentials when
\* it failed.
C24_LastResponseWins ==
    (InFlight = 0 /\ Quiet /\ Delivered) =>
        /\ ValidPayload(last.resp) =>
              /\ Authenticated(state)
              /\ state.user = last.resp.user
              /\ state.token = last.resp.token
              /\ localStorage = credentialWrite(NoStorage, last.resp)
        /\ last.resp.kind # "ok" =>
              /\ Anonymous(state)
              /\ StorageEmpty(localStorage)

\* C27: after logout() the store stays Anonymous and storage stays empty
\* while no login or register is invoked: the answer to a call that was
\* pending when logout() ran neither authenticates nor writes storage.
C27_LogoutIsFinalForPendingCalls ==
    Anonymous(state) /\ StorageEmpty(localStorage)

\* C25: a call is sent once and settles once: its answer takes it out of
\* the calls in flight and sends nothing again, whatever the answer; the
\* continuation that follows delivers one outcome to the caller, fulfilled
\* for a success and rejected otherwise; and a call comes in flight only by
\* being started.
C25_EachCallSettlesOnce ==
    [][/\ \A r \in AuthResponses \cup DataResponses :
            Answers(r) =>
                /\ calls[settling'.kind] > 0
                /\ calls' = [calls EXCEPT ![settling'.kind] = @ - 1]
       /\ settling # NoCall =>
            /\ settling' = NoCall
            /\ calls' = calls
            /\ last'.op = settling.kind
            /\ last'.outcome = IF settling.resp.kind = "ok" THEN "fulfilled"
                               ELSE "rejected"
            /\ last'.value = settling.resp
       /\ \A k \in Kinds :
            calls'[k] > calls[k] =>
                /\ Quiet
                /\ last'.op = k /\ last'.outcome = "pending"
                /\ calls' = [calls EXCEPT ![k] = @ + 1]]_vars

C25_Witness ==
    /\ last.op = "patients" /\ last.outcome = "rejected"
    /\ last.resp = NetworkError
    /\ last.value = NetworkError
    /\ InFlight = 0 /\ Quiet

Paired(st) == (st.authToken # Null) <=> (st.user # Null)

\* C26: when restore has run and no continuation is mid-step, storage holds
\* authToken and user iff the store is Authenticated, and then the stored
\* token is the token of the store (stated for well-formed stored values and
\* stores whose flag agrees with their user and token).
C26_StorageMirrorsSession ==
    (/\ restoreRuns > 0 /\ Quiet
     /\ localStorage.authToken \in {Null} \cup ValidTokens
     /\ localStorage.user \in {Null} \cup {JSONstringify(u) : u \in ValidUsers}
     /\ state.isAuthenticated =>
            Present(state.user) /\ Present(state.token)) =>
        /\ (localStorage.authToken # Null /\ localStorage.user # Null) <=>
              Authenticated(state)
        /\ Authenticated(state) => localStorage.authToken = state.token

\* C28: after restore has run, isLoading is true exactly when a login or
\* register is in flight: it does not fall to false while one still is, and
\* is false when none is.
C28_LoadingIffSessionCallInFlight ==
    /\ []((restoreRuns > 0 /\ Quiet /\ calls.login + calls.register = 0) =>
            ~state.isLoading)
    /\ [][(restoreRuns > 0 /\ state.isLoading /\ ~state'.isLoading) =>
            calls'.login + calls'.register = 0]_vars

\* C29: starting a login or register sets isLoading to true and the error
\* to absent and leaves user, token, isAuthenticated and storage as they
\* were, so a store that was Authenticated stays so with the same user and
\* token; the answer changes the store only when its continuation runs.
C29_PendingTransitionKeepsSession ==
    [][/\ (last'.op \in SessionKinds /\ last'.outcome = "pending") =>
            /\ state'.isLoading
            /\ state'.error = Null
            /\ state'.user = state.user
            /\ state'.token = state.token
            /\ state'.isAuthenticated = state.isAuthenticated
            /\ localStorage' = localStorage
       /\ (Quiet /\ settling' # NoCall) => state' = state]_vars

C29_Witness ==
    /\ last.op = "register" /\ Pending
    /\ Authenticated(state)
    /\ state.user = Admin /\ state.token = TokenA
    /\ state.isLoading

\* C30: every operation (login, register, logout, restore, the handling of
\* a 401) that finds authToken and user both stored or both absent leaves
\* them both stored or both absent.
C30_KeysWrittenAndErasedTogether ==
    [][Paired(localStorage) => Paired(localStorage')]_vars

C30_Witness ==
    /\ last.op = "login" /\ last.outcome = "fulfilled"
    /\ last.resp.token = Undefined
    /\ localStorage.authToken = Str(<<"undefined">>)
    /\ localStorage.user = JSONstringify(Admin)

====
